---- MODULE Spec2Model ----
(***************************************************************************)
(* A model of src/src/useShortcuts.ts: the canonical key of a keystroke    *)
(* (getEventMapKey), the lookup table built from a list of shortcuts       *)
(* (generateShorcutMap), and the hook useShortcuts that registers one      *)
(* keydown handler (handleKeyPress) on the document.                       *)
(*                                                                         *)
(* Strings are TLA+ strings, built with \o exactly as the template         *)
(* literals of the source build them.  An array is a sequence, an object   *)
(* used as a dictionary is a function whose domain is its set of keys.     *)
(***************************************************************************)
EXTENDS Naturals, Sequences, FiniteSets, TLC

VARIABLES
  \* ---- the hook and the document (specification Spec) ----
  maps,            \* the caller's shortcut lists, by reference (mutated by sort)
  status,          \* per component instance: "unmounted" | "mounted" | "retired"
  props,           \* per component: the { map, silent } of its last render
  shortcutMap,     \* per component: the useMemo value of line 48
  handleKeyPress,  \* per component: the useCallback value of lines 50-62
  gen,             \* per component: how many handler instances it has created
  listeners,       \* the document's keydown listeners, in registration order
  runs,            \* every call of a handler: what it captured and where it is
  calls,           \* every invocation of a shortcut's action, in order
  log,             \* every console.info line, in order
  keys,            \* every keystroke dispatched, in order
  released,        \* the handler instances whose effect cleanup has run
  reran,           \* whether a cleanup has been called again after it had run
  \* ---- the two pure functions on their own (specification SpecFn) ----
  fnPc,            \* "idle" | "input" | "built" | "looked" | "threw"
  fnArg,           \* what the caller passes as map: "array" | "undefined" | "object"
  fnGiven,         \* the list as the caller wrote it
  fnMap,           \* the same list object, as it is now
  fnTable,         \* the result of generateShorcutMap(fnMap)
  fnEvent,         \* the event handed to getEventMapKey / getShortcut
  fnKey,           \* the result of getEventMapKey(fnEvent)
  fnFound          \* the result of getShortcut({ shortcutMap: fnTable, event: fnEvent })

hookVars == <<maps, status, props, shortcutMap, handleKeyPress, gen, listeners,
              runs, calls, log, keys, released, reran>>
fnVars == <<fnPc, fnArg, fnGiven, fnMap, fnTable, fnEvent, fnKey, fnFound>>
vars == <<hookVars, fnVars>>

----------------------------------------------------------------------------
(* Bounds of the model *)

\* the longest list handed to generateShorcutMap on its own
MaxLen == 2
\* keystrokes dispatched in one behaviour
MaxKeystrokes == 2
\* handler instances one component creates in one behaviour
MaxHandlers == 2

----------------------------------------------------------------------------
(* Constants and types of the source *)

LOG_TAG == "#hooks #useShortcuts"

\* the list of line 7 with altKey forgotten
ModifiersKeysWithoutAlt == <<"ctrlKey", "shiftKey", "metaKey">>

MODIFIERS_KEYS == <<"ctrlKey", "shiftKey", "metaKey", "altKey">>

ModifierKey == {"ctrlKey", "shiftKey", "metaKey", "altKey"}

\* The value of an absent property / of `return;`
undefined == [action |-> "undefined", modifiers |-> <<>>, key |-> "", description |-> ""]

\* ShortcutConfig.silent is optional: true, false or omitted
SilentValues == {"true", "false", "undefined"}

\* JavaScript truthiness of a silent value (line 58: if (silent) return)
Truthy(s) == s = "true"

----------------------------------------------------------------------------
(* Library functions the source calls, on the values the model uses *)

\* String.prototype.toLowerCase on the key names of the model
ToLowerCase(s) ==
  CASE s = "O" -> "o"
    [] s = "I" -> "i"
    [] s = "P" -> "p"
    [] OTHER -> s

\* a < b as Array.prototype.sort with no comparator orders the modifier
\* names: by UTF-16 code units, "altKey" < "ctrlKey" < "metaKey" < "shiftKey"
CodeUnitRank(m) ==
  CASE m = "altKey" -> 1
    [] m = "ctrlKey" -> 2
    [] m = "metaKey" -> 3
    [] m = "shiftKey" -> 4

RECURSIVE Insert(_, _)
Insert(s, x) ==
  IF s = <<>> THEN <<x>>
  ELSE IF CodeUnitRank(x) < CodeUnitRank(Head(s)) THEN <<x>> \o s
  ELSE <<Head(s)>> \o Insert(Tail(s), x)

\* Array.prototype.sort(): the elements of s in ascending order
RECURSIVE Sort(_)
Sort(s) == IF s = <<>> THEN <<>> ELSE Insert(Sort(SubSeq(s, 1, Len(s) - 1)), s[Len(s)])

\* Array.prototype.join(sep)
RECURSIVE Join(_, _)
Join(s, sep) ==
  IF s = <<>> THEN ""
  ELSE IF Len(s) = 1 THEN s[1]
  ELSE s[1] \o sep \o Join(Tail(s), sep)

\* Array.prototype.filter, for the predicate (m) => event[m]
RECURSIVE FilterPressed(_, _)
FilterPressed(s, event) ==
  IF s = <<>> THEN <<>>
  ELSE IF event[Head(s)] THEN <<Head(s)>> \o FilterPressed(Tail(s), event)
  ELSE FilterPressed(Tail(s), event)

----------------------------------------------------------------------------
(* The pure functions of the source *)

\* getEventMapKey without the toLowerCase() of line 30
getEventMapKeyAsTyped(event) ==
  LET modifiersPressed == Sort(FilterPressed(MODIFIERS_KEYS, event))
  IN Join(modifiersPressed, "-") \o "-" \o event.key

getEventMapKey(event) ==
  LET modifiersPressed == Sort(FilterPressed(MODIFIERS_KEYS, event))
  IN Join(modifiersPressed, "-") \o "-" \o ToLowerCase(event.key)

getShortcut(table, event) ==
  LET indexMapKey == getEventMapKey(event)
  IN IF indexMapKey \in DOMAIN table THEN table[indexMapKey] ELSE undefined

\* modifiers.sort() sorts the array of the caller's object in place: the
\* object a config refers to after line 41 has run on it
SortedInPlace(config) == [config EXCEPT !.modifiers = Sort(@)]

\* line 41 without the sort()
IndexKeyAsDeclared(config) == Join(config.modifiers, "-") \o "-" \o config.key

\* line 41
IndexKey(config) == Join(Sort(config.modifiers), "-") \o "-" \o config.key

\* { ...acc, [indexKey]: config }
Spread(acc, indexKey, config) ==
  [k \in DOMAIN acc \cup {indexKey} |-> IF k = indexKey THEN config ELSE acc[k]]

\* map.reduce(callback, {}) in place of reduceRight: from map[1] up to map[n]
RECURSIVE ReduceLeft(_, _, _)
ReduceLeft(map, n, acc) ==
  IF n = 0 THEN acc
  ELSE Spread(ReduceLeft(map, n - 1, acc), IndexKey(map[n]), SortedInPlace(map[n]))

\* map.reduceRight(callback, {}) over map[1..n], from map[n] down to map[1]
RECURSIVE ReduceRight(_, _, _)
ReduceRight(map, n, acc) ==
  IF n = 0 THEN acc
  ELSE ReduceRight(map, n - 1, Spread(acc, IndexKey(map[n]), SortedInPlace(map[n])))

generateShorcutMap(map) == ReduceRight(map, Len(map), <<>>)

\* what generateShorcutMap leaves in the caller's list
MapAfterGenerate(map) == [i \in DOMAIN map |-> SortedInPlace(map[i])]

----------------------------------------------------------------------------
(* The hook: useShortcuts({ map, silent }) in a mounted component *)

Components == {"c1"}

\* SHORTCUT_CONFIG.map of test/useShortcut.test.tsx
TestMap ==
  << [action |-> "A1", modifiers |-> <<"shiftKey", "ctrlKey">>, key |-> "o",
      description |-> "Sample action 1"],
     [action |-> "A2", modifiers |-> <<"altKey", "ctrlKey">>, key |-> "i",
      description |-> "Sample action 2"],
     [action |-> "A3", modifiers |-> <<"shiftKey", "ctrlKey">>, key |-> "o",
      description |-> "Sample action 3"] >>

\* a list that declares a key in upper case, then the same shortcut in lower case
UpperMap ==
  << [action |-> "A4", modifiers |-> <<"ctrlKey">>, key |-> "O",
      description |-> "Open"],
     [action |-> "A5", modifiers |-> <<"ctrlKey">>, key |-> "o",
      description |-> "Other"] >>

\* the lists the callers own, by reference
MapRefs == {"m1", "m2"}

InitialMaps == [m1 |-> TestMap, m2 |-> UpperMap]

Event(ctrl, shift, meta, alt, key) ==
  [ctrlKey |-> ctrl, shiftKey |-> shift, metaKey |-> meta, altKey |-> alt, key |-> key]

\* the keystrokes the document may receive
KeyEvents ==
  { Event(TRUE, TRUE, FALSE, FALSE, "o"),
    Event(TRUE, FALSE, FALSE, TRUE, "i"),
    Event(TRUE, FALSE, FALSE, TRUE, "p"),
    Event(TRUE, FALSE, FALSE, FALSE, "O") }

NoProps == [map |-> "none", silent |-> "undefined"]

NoHandler ==
  [c |-> "none", id |-> 0, map |-> "none", shortcutMap |-> <<>>, silent |-> "undefined"]

\* what a shortcut's action does when it is called
Outcomes == {"throws", "returns", "pending"}

\* nothing is rendered yet: the component instances cs exist, none is mounted
HookInitOf(cs) ==
  /\ maps = InitialMaps
  /\ status = [c \in cs |-> "unmounted"]
  /\ props = [c \in cs |-> NoProps]
  /\ shortcutMap = [c \in cs |-> <<>>]
  /\ handleKeyPress = [c \in cs |-> NoHandler]
  /\ gen = [c \in cs |-> 0]
  /\ listeners = <<>>
  /\ runs = <<>>
  /\ calls = <<>>
  /\ log = <<>>
  /\ keys = <<>>
  /\ released = {}
  /\ reran = FALSE

HookInit == HookInitOf(Components)

\* document.addEventListener('keydown', h): a listener already there is not added again
addEventListener(ls, h) ==
  IF \E i \in DOMAIN ls : ls[i] = h THEN ls ELSE Append(ls, h)

\* a cleanup that pops the listener registered last, whichever it is
removeLastListener(ls, h) == SubSeq(ls, 1, Len(ls) - 1)

\* document.removeEventListener('keydown', h)
removeEventListener(ls, h) == SelectSeq(ls, LAMBDA x : x # h)

\* useMemo(() => generateShorcutMap(map), []): the table of the first render
\* is kept whatever list later renders pass
MemoOnMountOnly(c, m) == status[c] = "unmounted"

\* useMemo(() => generateShorcutMap(map), [map]): recomputed on the first
\* render and whenever the map reference differs from the last render's
MemoChanged(c, m) == status[c] = "unmounted" \/ props[c].map # m

\* useCallback(..., [shortcutMap, silent]): a new function whenever the table
\* or silent differs from the last render's
CallbackChanged(c, m, s) == MemoChanged(c, m) \/ props[c].silent # s

\* a re-render whose effect dependency [handleKeyPress] did not change, or a
\* first render: no cleanup of a previous effect runs
EffectCleanupDue(c, m, s) == status[c] = "mounted" /\ CallbackChanged(c, m, s)

\* an effect that returns no cleanup: the previous handler stays registered
EffectWithoutCleanup(c, m, s) == listeners

\* the document's listeners after the cleanup of the previous effect has run
\* (lines 66-68), when the render changed handleKeyPress
EffectCleanup(c, m, s) ==
  IF EffectCleanupDue(c, m, s)
  THEN removeEventListener(listeners, handleKeyPress[c])
  ELSE listeners

\* One render of the component with { map: maps[m], silent: s }, committed,
\* with its effect (lines 47-70)
useShortcuts(c, m, s) ==
  LET table == IF MemoChanged(c, m) THEN generateShorcutMap(maps[m]) ELSE shortcutMap[c]
      handler == IF CallbackChanged(c, m, s)
                 THEN [c |-> c, id |-> gen[c] + 1, map |-> m, shortcutMap |-> table,
                       silent |-> s]
                 ELSE handleKeyPress[c]
      cleaned == EffectCleanup(c, m, s)
  IN /\ CallbackChanged(c, m, s) => gen[c] < MaxHandlers
     /\ maps' = IF MemoChanged(c, m) THEN [maps EXCEPT ![m] = MapAfterGenerate(@)] ELSE maps
     /\ shortcutMap' = [shortcutMap EXCEPT ![c] = table]
     /\ handleKeyPress' = [handleKeyPress EXCEPT ![c] = handler]
     /\ gen' = [gen EXCEPT ![c] = handler.id]
     /\ listeners' = IF CallbackChanged(c, m, s)
                     THEN addEventListener(cleaned, handler)
                     ELSE listeners
     /\ props' = [props EXCEPT ![c] = [map |-> m, silent |-> s]]
     /\ status' = [status EXCEPT ![c] = "mounted"]
     /\ released' = IF EffectCleanupDue(c, m, s)
                    THEN released \cup {handleKeyPress[c]}
                    ELSE released
     /\ UNCHANGED <<runs, calls, log, keys, reran, fnVars>>

Mount(c, m, s) ==
  /\ status[c] = "unmounted"
  /\ useShortcuts(c, m, s)

Rerender(c, m, s) ==
  /\ status[c] = "mounted"
  \* with the same map reference and the same silent, no hook dependency
  \* changes and the render changes nothing
  /\ CallbackChanged(c, m, s)
  /\ useShortcuts(c, m, s)

\* Unmount with an effect that returns no cleanup
UnmountKeepsListener(c) ==
  /\ status[c] = "mounted"
  /\ status' = [status EXCEPT ![c] = "retired"]
  /\ props' = [props EXCEPT ![c] = NoProps]
  /\ shortcutMap' = [shortcutMap EXCEPT ![c] = <<>>]
  /\ handleKeyPress' = [handleKeyPress EXCEPT ![c] = NoHandler]
  /\ UNCHANGED <<maps, gen, listeners, runs, calls, log, keys, released, reran, fnVars>>

\* an unmount that waits until no handler call of the component is suspended
UnmountWhenIdle(c) ==
  /\ \A r \in DOMAIN runs : runs[r].c = c => runs[r].status # "pending"
  /\ status[c] = "mounted"
  /\ listeners' = removeEventListener(listeners, handleKeyPress[c])
  /\ status' = [status EXCEPT ![c] = "retired"]
  /\ props' = [props EXCEPT ![c] = NoProps]
  /\ shortcutMap' = [shortcutMap EXCEPT ![c] = <<>>]
  /\ handleKeyPress' = [handleKeyPress EXCEPT ![c] = NoHandler]
  /\ released' = released \cup {handleKeyPress[c]}
  /\ UNCHANGED <<maps, gen, runs, calls, log, keys, reran, fnVars>>

\* The component is unmounted: the effect's cleanup runs (lines 66-68) and the
\* hook's state is dropped.  A component instance is mounted once: rendering
\* the same component again later creates another instance
Unmount(c) ==
  /\ status[c] = "mounted"
  /\ listeners' = removeEventListener(listeners, handleKeyPress[c])
  /\ status' = [status EXCEPT ![c] = "retired"]
  /\ props' = [props EXCEPT ![c] = NoProps]
  /\ shortcutMap' = [shortcutMap EXCEPT ![c] = <<>>]
  /\ handleKeyPress' = [handleKeyPress EXCEPT ![c] = NoHandler]
  /\ released' = released \cup {handleKeyPress[c]}
  /\ UNCHANGED <<maps, gen, runs, calls, log, keys, reran, fnVars>>

\* handleKeyPress without the `if (!shortcut) return;` of line 53: line 55
\* destructures undefined, which throws
HandlerCallUnguarded(h, event, ks, outcome) ==
  LET shortcut == getShortcut(h.shortcutMap, event)
  IN [ks |-> ks, c |-> h.c, id |-> h.id, shortcut |-> shortcut, silent |-> h.silent,
      called |-> shortcut # undefined,
      threw |-> shortcut # undefined /\ outcome = "throws",
      status |-> IF shortcut = undefined THEN "failed"
                 ELSE CASE outcome = "throws" -> "failed"
                        [] outcome = "returns" -> "resolved"
                        [] outcome = "pending" -> "pending"]

\* The call handleKeyPress(event) of handler instance h for keystroke number
\* ks, up to its first suspension (lines 51-56): the run it leaves behind.
\* outcome is what the action does if it is called.
HandlerCall(h, event, ks, outcome) ==
  LET shortcut == getShortcut(h.shortcutMap, event)
  IN [ks |-> ks, c |-> h.c, id |-> h.id, shortcut |-> shortcut, silent |-> h.silent,
      called |-> shortcut # undefined,
      threw |-> shortcut # undefined /\ outcome = "throws",
      status |-> IF shortcut = undefined THEN "returned"
                 ELSE CASE outcome = "throws" -> "failed"
                        [] outcome = "returns" -> "resolved"
                        [] outcome = "pending" -> "pending"]

\* the action invocation a run made, as the action's spy records it
CallOf(run) == [ks |-> run.ks, c |-> run.c, action |-> run.shortcut.action]

RECURSIVE CallsOf(_)
CallsOf(rs) ==
  IF rs = <<>> THEN <<>>
  ELSE (IF Head(rs).called THEN <<CallOf(Head(rs))>> ELSE <<>>) \o CallsOf(Tail(rs))

\* A keydown event reaches the document: every registered listener is called
\* with it, in registration order
Keystroke(event, out) ==
  LET ks == Len(keys) + 1
      started == [i \in DOMAIN listeners |-> HandlerCall(listeners[i], event, ks, out[i])]
  IN /\ Len(keys) < MaxKeystrokes
     \* an action that is not called does nothing: one choice stands for all
     /\ \A i \in DOMAIN listeners : ~started[i].called => out[i] = "returns"
     /\ runs' = runs \o started
     /\ calls' = calls \o CallsOf(started)
     /\ keys' = Append(keys, [event |-> event,
                              bound |-> [c \in {d \in DOMAIN status : status[d] = "mounted"}
                                           |-> props[c]]])
     /\ UNCHANGED <<maps, status, props, shortcutMap, handleKeyPress, gen, listeners,
                    log, released, reran, fnVars>>

\* The promise a pending action returned is fulfilled or rejected
Settle(r, how) ==
  /\ runs[r].status = "pending"
  /\ runs' = [runs EXCEPT ![r].status = how]
  /\ UNCHANGED <<maps, status, props, shortcutMap, handleKeyPress, gen, listeners,
                 calls, log, keys, released, reran, fnVars>>

\* line 59
LogLine(shortcut) ==
  LOG_TAG \o " with " \o Join(shortcut.modifiers, ",") \o " executed for key \""
    \o shortcut.key \o "\": " \o shortcut.description

\* whether the handler instance that run r is a call of is registered now
Registered(r) ==
  \E i \in DOMAIN listeners : listeners[i].c = runs[r].c /\ listeners[i].id = runs[r].id

\* one console.info line of run r; live records whether the run's handler
\* instance was still registered when the line was written
LogEntry(r) == [run |-> r, text |-> LogLine(runs[r].shortcut), live |-> Registered(r)]

\* lines 58-59 without the `if (silent) return;`
LogAfterIgnoringSilent(r) == Append(log, LogEntry(r))

\* lines 58-59 reading the silent of the component's last render instead of
\* the one the handler instance closed over
LogAfterCurrentSilent(r) ==
  IF Truthy(props[runs[r].c].silent) THEN log ELSE Append(log, LogEntry(r))

\* the log after the run's lines 58-59
LogAfter(r) ==
  IF Truthy(runs[r].silent) THEN log ELSE Append(log, LogEntry(r))

\* The handler resumes after `await action()` resolved (lines 56-60)
Resume(r) ==
  /\ runs[r].status = "resolved"
  /\ log' = LogAfter(r)
  /\ runs' = [runs EXCEPT ![r].status = "done"]
  /\ UNCHANGED <<maps, status, props, shortcutMap, handleKeyPress, gen, listeners,
                 calls, keys, released, reran, fnVars>>

\* line 56 wrapped in a try / catch that swallows the failure
RejectSwallowed(r) ==
  /\ runs[r].status = "rejected"
  /\ runs' = [runs EXCEPT ![r].status = "done"]
  /\ UNCHANGED <<maps, status, props, shortcutMap, handleKeyPress, gen, listeners,
                 calls, log, keys, released, reran, fnVars>>

\* The handler resumes after `await action()` rejected: the await throws and
\* nothing catches it, so the handler's own promise is rejected (line 56)
Reject(r) ==
  /\ runs[r].status = "rejected"
  /\ runs' = [runs EXCEPT ![r].status = "failed"]
  /\ UNCHANGED <<maps, status, props, shortcutMap, handleKeyPress, gen, listeners,
                 calls, log, keys, released, reran, fnVars>>

FnIdle ==
  /\ fnPc = "idle"
  /\ fnArg = "array"
  /\ fnGiven = <<>>
  /\ fnMap = <<>>
  /\ fnTable = <<>>
  /\ fnEvent = Event(FALSE, FALSE, FALSE, FALSE, "")
  /\ fnKey = ""
  /\ fnFound = undefined

Init == HookInit /\ FnIdle

Next ==
  \/ \E c \in Components, m \in MapRefs, s \in SilentValues : Mount(c, m, s)
  \/ \E c \in Components, m \in MapRefs, s \in SilentValues : Rerender(c, m, s)
  \/ \E c \in Components : Unmount(c)
  \/ \E event \in KeyEvents, out \in [DOMAIN listeners -> Outcomes] : Keystroke(event, out)
  \/ \E r \in DOMAIN runs, how \in {"resolved", "rejected"} : Settle(r, how)
  \/ \E r \in DOMAIN runs : Resume(r)
  \/ \E r \in DOMAIN runs : Reject(r)

Spec == Init /\ [][Next]_vars

----------------------------------------------------------------------------
(* Two component instances that call useShortcuts on the same document     *)

Bindings == {"c1", "c2"}

\* the keystrokes the document receives here: one that the test's list
\* matches, one that no list matches
BindingsEvents ==
  { Event(TRUE, TRUE, FALSE, FALSE, "o"),
    Event(TRUE, FALSE, FALSE, TRUE, "p") }

\* the silent option the components are rendered with here: omitted
BindingsSilent == {"undefined"}

\* what an action does here when it is called: it returns, or it returns a
\* promise that is still pending (and is fulfilled or rejected later, or never)
BindingsOutcomes == {"returns", "pending"}

\* The cleanup closure an effect returned (lines 66-68) is called once more
\* after it has already run: it removes the handler it closed over
ReleaseAgain(h) ==
  /\ h \in released
  /\ listeners' = removeEventListener(listeners, h)
  /\ reran' = TRUE
  /\ UNCHANGED <<maps, status, props, shortcutMap, handleKeyPress, gen, runs, calls,
                 log, keys, released, fnVars>>

InitBindings == HookInitOf(Bindings) /\ FnIdle

NextBindings ==
  \/ \E c \in Bindings, m \in MapRefs, s \in BindingsSilent : Mount(c, m, s)
  \/ \E c \in Bindings, m \in MapRefs, s \in BindingsSilent : Rerender(c, m, s)
  \/ \E c \in Bindings : Unmount(c)
  \/ \E h \in released : ReleaseAgain(h)
  \/ \E event \in BindingsEvents, out \in [DOMAIN listeners -> BindingsOutcomes] :
       Keystroke(event, out)
  \/ \E r \in DOMAIN runs, how \in {"resolved", "rejected"} : Settle(r, how)
  \/ \E r \in DOMAIN runs : Resume(r)
  \/ \E r \in DOMAIN runs : Reject(r)

SpecBindings == InitBindings /\ [][NextBindings]_vars

----------------------------------------------------------------------------
(* generateShorcutMap, getEventMapKey and getShortcut called directly, as  *)
(* the describe blocks of test/useShortcut.test.tsx call them              *)

\* the modifiers the lists and events of SpecFn use
FnModifierKeys == {"ctrlKey", "shiftKey", "altKey"}

\* every array of distinct modifiers, in every order
FnModifierArrays ==
  UNION { { a \in [1..n -> FnModifierKeys] : \A i, j \in 1..n : a[i] = a[j] => i = j }
          : n \in 0..Cardinality(FnModifierKeys) }

FnKeyNames == {"o", "O"}

\* each position of a list holds its own object, with its own action
FnActions == <<"A1", "A2", "A3", "A4", "A5">>

FnDescriptions == <<"first", "second", "third", "fourth", "fifth">>

\* the shortcut objects a caller may put at position i of a list
FnShortcuts(i) ==
  { [action |-> FnActions[i], modifiers |-> mods, key |-> key,
     description |-> FnDescriptions[i]]
    : mods \in FnModifierArrays, key \in FnKeyNames }

FnEvents ==
  { Event(ctrl, shift, FALSE, alt, key) :
      ctrl \in BOOLEAN, shift \in BOOLEAN, alt \in BOOLEAN, key \in FnKeyNames }

InitFn ==
  /\ HookInit
  /\ fnPc = "input"
  /\ fnArg = "array"
  /\ fnGiven = <<>>
  /\ fnMap = <<>>
  /\ fnTable = <<>>
  /\ fnEvent = Event(FALSE, FALSE, FALSE, FALSE, "")
  /\ fnKey = ""
  /\ fnFound = undefined

\* The caller writes one more shortcut at the end of its list
FnWrite(config) ==
  /\ fnPc = "input"
  /\ Len(fnGiven) < MaxLen
  /\ fnGiven' = Append(fnGiven, config)
  /\ fnMap' = fnGiven'
  /\ UNCHANGED <<fnPc, fnArg, fnTable, fnEvent, fnKey, fnFound, hookVars>>

\* result = generateShorcutMap(map)
FnGenerate ==
  /\ fnPc = "input"
  /\ fnTable' = generateShorcutMap(fnMap)
  /\ fnMap' = MapAfterGenerate(fnMap)
  /\ fnPc' = "built"
  /\ UNCHANGED <<fnArg, fnGiven, fnEvent, fnKey, fnFound, hookVars>>

\* getEventMapKey(event) and getShortcut({ shortcutMap: result, event })
FnLookup(event) ==
  /\ fnPc = "built"
  /\ fnEvent' = event
  /\ fnKey' = getEventMapKey(event)
  /\ fnFound' = getShortcut(fnTable, event)
  /\ fnPc' = "looked"
  /\ UNCHANGED <<fnArg, fnGiven, fnMap, fnTable, hookVars>>

\* the values a caller may pass as map that are not arrays: nothing at all,
\* or a plain object
NotArrays == {"undefined", "object"}

\* whether map.reduceRight (line 39) is a function: Array.prototype has it,
\* undefined has no properties and a plain object has no such method
HasReduceRight(arg) == arg = "array"

\* result = generateShorcutMap(arg) with arg not an array: line 39 calls
\* arg.reduceRight, which throws a TypeError; nothing is returned
FnGenerateNotArray(arg) ==
  /\ fnPc = "input"
  /\ fnGiven = <<>>
  /\ ~HasReduceRight(arg)
  /\ fnArg' = arg
  /\ fnPc' = "threw"
  /\ UNCHANGED <<fnGiven, fnMap, fnTable, fnEvent, fnKey, fnFound, hookVars>>

NextFn ==
  \/ \E config \in FnShortcuts(Len(fnGiven) + 1) : FnWrite(config)
  \/ FnGenerate
  \/ \E arg \in NotArrays : FnGenerateNotArray(arg)
  \/ \E event \in FnEvents : FnLookup(event)

SpecFn == InitFn /\ [][NextFn]_vars

----------------------------------------------------------------------------
(* Properties of generateShorcutMap, getEventMapKey and getShortcut (SpecFn) *)

Range(seq) == { seq[i] : i \in DOMAIN seq }

\* the modifiers of a set in the one fixed order of the canonical key
InOrder(mods) ==
  SelectSeq(<<"altKey", "ctrlKey", "metaKey", "shiftKey">>, LAMBDA m : m \in mods)

\* the modifier flags that are active on an event
ActiveModifiers(event) == { m \in ModifierKey : event[m] }

\* the key of a declared shortcut: its modifiers in the fixed order joined by
\* "-", then "-", then its key as declared
DeclaredKey(config) ==
  Join(InOrder(Range(config.modifiers)), "-") \o "-" \o config.key

\* the canonical key of section 4.1 of spec.md: as DeclaredKey, with the key
\* in lower case
CanonicalKey(mods, key) == Join(InOrder(mods), "-") \o "-" \o ToLowerCase(key)

\* generateShorcutMap has just returned (a lookup changes neither the list nor
\* the table)
FnBuilt == fnPc = "built"

\* the first position of the list that declares the same shortcut as position i
FirstWithKey(i) ==
  CHOOSE j \in DOMAIN fnGiven :
    /\ DeclaredKey(fnGiven[j]) = DeclaredKey(fnGiven[i])
    /\ \A l \in DOMAIN fnGiven :
         DeclaredKey(fnGiven[l]) = DeclaredKey(fnGiven[i]) => j <= l

C5_SizeIsDistinctCanonicalKeys ==
  FnBuilt =>
    LET canonical == { CanonicalKey(Range(fnGiven[i].modifiers), fnGiven[i].key)
                       : i \in DOMAIN fnGiven }
    IN /\ Cardinality(DOMAIN fnTable) = Cardinality(canonical)
       /\ DOMAIN fnTable \subseteq canonical

\* C6: a keystroke with exactly the modifiers of a definition that is the first
\* of the list with its shortcut, and with its key up to letter case, gets the
\* key that definition is stored under, and getShortcut returns that definition.
C6_CaseInsensitiveSymmetricMatch ==
  fnPc = "looked" =>
    \A i \in DOMAIN fnGiven :
      ( /\ FirstWithKey(i) = i
        /\ ActiveModifiers(fnEvent) = Range(fnGiven[i].modifiers)
        /\ ToLowerCase(fnEvent.key) = ToLowerCase(fnGiven[i].key) )
      => /\ fnKey \in DOMAIN fnTable
         /\ fnTable[fnKey].action = fnGiven[i].action
         /\ fnFound.action = fnGiven[i].action

\* C7: the canonical key does not depend on the order of the modifiers.  The
\* keys of the table are exactly the keys of the definitions with the modifiers
\* in the fixed order altKey, ctrlKey, metaKey, shiftKey, so that definitions
\* declaring the same modifiers in different orders with the same key share one
\* entry; and the key of an event is its active modifiers in that same order
\* joined by "-", then "-", then its key in lower case.
C7_OrderIndependentKey ==
  /\ FnBuilt => DOMAIN fnTable = { DeclaredKey(fnGiven[i]) : i \in DOMAIN fnGiven }
  /\ fnPc = "looked" =>
       fnKey = Join(InOrder(ActiveModifiers(fnEvent)), "-") \o "-"
                 \o ToLowerCase(fnEvent.key)

\* two definitions declare ctrlKey and shiftKey in opposite orders with the key
\* "o" and share the entry "ctrlKey-shiftKey-o", which a keystroke with both
\* flags resolves to
C7_Witness ==
  /\ fnPc = "looked"
  /\ Len(fnGiven) = 2
  /\ fnGiven[1].modifiers = <<"shiftKey", "ctrlKey">>
  /\ fnGiven[2].modifiers = <<"ctrlKey", "shiftKey">>
  /\ fnGiven[1].key = "o" /\ fnGiven[2].key = "o"
  /\ DOMAIN fnTable = {"ctrlKey-shiftKey-o"}
  /\ fnKey = "ctrlKey-shiftKey-o"

\* the same event with the letter case of its key changed
OtherCase(event) ==
  [event EXCEPT !.key = CASE @ = "o" -> "O" [] @ = "O" -> "o" [] OTHER -> @]

\* C8: two events with the same modifier flags whose keys differ only in
\* letter case get the same canonical key and resolve to the same table entry.
C8_EventKeyCaseInsensitive ==
  fnPc = "looked" =>
    /\ OtherCase(fnEvent).key # fnEvent.key
    /\ getEventMapKey(OtherCase(fnEvent)) = fnKey
    /\ getShortcut(fnTable, OtherCase(fnEvent)) = fnFound

\* "O" with no modifier active resolves to the definition declared as "o" with
\* no modifier
C8_Witness ==
  /\ fnPc = "looked"
  /\ fnEvent.key = "O"
  /\ ActiveModifiers(fnEvent) = {}
  /\ fnKey = "-o"
  /\ fnFound # undefined
  /\ fnFound.key = "o"

----------------------------------------------------------------------------
(* Properties of the hook (Spec) *)

\* the actions invoked for keystroke number k by component c, in order
RECURSIVE ActionsAt(_, _, _)
ActionsAt(cs, k, c) ==
  IF cs = <<>> THEN <<>>
  ELSE (IF Head(cs).ks = k /\ Head(cs).c = c THEN <<Head(cs).action>> ELSE <<>>)
         \o ActionsAt(Tail(cs), k, c)

\* a definition matches an event: same set of modifiers, same key up to case
Matches(config, event) ==
  /\ Range(config.modifiers) = ActiveModifiers(event)
  /\ ToLowerCase(config.key) = ToLowerCase(event.key)

\* C1: for every keystroke dispatched while a component is bound to a list,
\* the actions invoked for it are exactly the action of the earliest
\* definition of the list that matches the event, or none when none matches.
C1_EarliestMatchOnly ==
  \A k \in DOMAIN keys : \A c \in DOMAIN keys[k].bound :
    LET list == maps[keys[k].bound[c].map]
        matching == { i \in DOMAIN list : Matches(list[i], keys[k].event) }
        earliest == CHOOSE i \in matching : \A j \in matching : i <= j
    IN ActionsAt(calls, k, c) =
         IF matching = {} THEN <<>> ELSE <<list[earliest].action>>

\* the runs of component c that the step to the next state starts
NewRunsOf(c) == { r \in DOMAIN runs' \ DOMAIN runs : runs'[r].c = c }

\* C2: a keystroke whose canonical key has no entry in the table of a bound
\* component invokes no action of it, emits no log line and leaves its handler
\* registered, and the handler call returns without error; no log line is ever
\* emitted for such a handler call.
C2_NoMatchNoEffect ==
  [][ /\ Len(keys') = Len(keys) + 1 =>
           \A c \in { d \in Components : status[d] = "mounted" } :
             getEventMapKey(keys'[Len(keys')].event) \notin DOMAIN shortcutMap[c]
             => /\ ActionsAt(calls', Len(keys'), c) = <<>>
                /\ log' = log
                /\ listeners' = listeners
                /\ \E i \in DOMAIN listeners' : listeners'[i] = handleKeyPress'[c]
                /\ NewRunsOf(c) # {}
                /\ \A r \in NewRunsOf(c) : runs'[r].status = "returned"
      /\ \A i \in DOMAIN log' : runs'[log'[i].run].status # "returned"
    ]_vars

\* ctrl+alt+"p" was dispatched to a component bound to the test's list: nothing
\* was invoked or logged, the call returned and the handler is still registered
C2_Witness ==
  /\ Len(keys) = 1
  /\ keys[1].event = Event(TRUE, FALSE, FALSE, TRUE, "p")
  /\ DOMAIN keys[1].bound = {"c1"}
  /\ keys[1].bound["c1"].map = "m1"
  /\ Len(runs) = 1 /\ runs[1].status = "returned"
  /\ calls = <<>> /\ log = <<>>
  /\ listeners = <<handleKeyPress["c1"]>>

\* C3: every action invocation was made for a keystroke dispatched while its
\* component was mounted: a keystroke after the unmount invokes nothing.
C3_NoActionAfterUnmount ==
  \A i \in DOMAIN calls : calls[i].c \in DOMAIN keys[calls[i].ks].bound

\* the same keystroke invoked an action before the unmount and nothing after it
C3_Witness ==
  /\ status["c1"] = "retired"
  /\ Len(keys) = 2
  /\ keys[1].event = keys[2].event
  /\ DOMAIN keys[1].bound = {"c1"}
  /\ DOMAIN keys[2].bound = {}
  /\ Len(calls) = 1 /\ calls[1].ks = 1

\* the log lines of run r
LogsOf(r) == { i \in DOMAIN log : log[i].run = r }

\* the silent option the component was last rendered with when keystroke
\* number k was dispatched
SilentAt(k, c) == keys[k].bound[c].silent

\* the line of section 6 of spec.md for a definition
ExpectedLine(config) ==
  "#hooks #useShortcuts with " \o Join(config.modifiers, ",")
    \o " executed for key \"" \o config.key \o "\": " \o config.description

\* C9: a handler call that matched a definition has no log line when silent is
\* true; when silent is false or omitted it has no log line until its action
\* has resolved and the handler has resumed, and exactly one from then on,
\* the line that names the matched definition.
C9_SilentAndLogAfterAction ==
  \A r \in DOMAIN runs :
    runs[r].called =>
      /\ SilentAt(runs[r].ks, runs[r].c) = "true" => LogsOf(r) = {}
      /\ SilentAt(runs[r].ks, runs[r].c) \in {"false", "undefined"} =>
           /\ Cardinality(LogsOf(r)) = (IF runs[r].status = "done" THEN 1 ELSE 0)
           /\ \A i \in LogsOf(r) : log[i].text = ExpectedLine(runs[r].shortcut)

\* one matched keystroke handled with silent omitted has its line, another
\* handled with silent true has none
C9_Witness ==
  /\ Len(runs) = 2
  /\ runs[1].called /\ runs[1].status = "done" /\ SilentAt(1, "c1") = "undefined"
  /\ runs[2].called /\ runs[2].status = "done" /\ SilentAt(2, "c1") = "true"
  /\ Len(log) = 1
  /\ log[1].run = 1
  /\ log[1].text =
       "#hooks #useShortcuts with ctrlKey,shiftKey executed for key \"o\": Sample action 1"

\* the handler calls whose action failed: it threw, or its promise is rejected
Failing(rs) == { r \in DOMAIN rs : rs[r].threw \/ rs[r].status \in {"rejected", "failed"} }

\* C10: a handler call whose action threw has failed; one whose action's
\* promise is rejected does nothing but fail; and a failing call has invoked
\* its action once and has no log line, whatever silent is.
C10_FailurePropagates ==
  [][ /\ \A r \in DOMAIN runs' : runs'[r].threw => runs'[r].status = "failed"
      /\ \A r \in Failing(runs) : runs'[r].status \in {"rejected", "failed"}
      /\ \A r \in Failing(runs') :
           /\ \A i \in DOMAIN log' : log'[i].run # r
           /\ Len(ActionsAt(calls', runs'[r].ks, runs'[r].c)) = 1
    ]_vars

\* with silent false, one action threw and another's promise was rejected: both
\* handler calls have failed, each action was invoked once and nothing is logged
C10_Witness ==
  /\ Len(runs) = 2
  /\ runs[1].threw /\ runs[1].status = "failed"
  /\ ~runs[2].threw /\ runs[2].status = "failed"
  /\ runs[1].silent = "false" /\ runs[2].silent = "false"
  /\ Len(calls) = 2
  /\ log = <<>>

----------------------------------------------------------------------------
(* Rebinding, malformed lists and the registration of the handler *)

\* the actions a keystroke invokes when it is resolved against a table built
\* from list: the action of the entry under the event's key, or none
Resolved(list, event) ==
  LET found == getShortcut(generateShorcutMap(list), event)
  IN IF found = undefined THEN <<>> ELSE <<found.action>>

\* C11: when a mounted component is rendered with another list reference, its
\* table becomes the table built from the new list, its previous handler is no
\* longer registered and a new handler that closes over the new table is; and
\* every keystroke invokes, for each mounted component, exactly what a lookup
\* in a table built from the list of its last render finds: after a change of
\* list, nothing that only the old list declares.  (An entry is found under the
\* key the builder derives, as in C4.)
C11_RebuildOnNewList ==
  [][ \A c \in DOMAIN status :
        /\ ( /\ status[c] = "mounted" /\ status'[c] = "mounted"
              /\ props'[c].map # props[c].map )
           => /\ shortcutMap'[c] = generateShorcutMap(maps[props'[c].map])
              /\ handleKeyPress'[c] # handleKeyPress[c]
              /\ handleKeyPress'[c].shortcutMap = shortcutMap'[c]
              /\ \A i \in DOMAIN listeners' : listeners'[i] # handleKeyPress[c]
              /\ \E i \in DOMAIN listeners' : listeners'[i] = handleKeyPress'[c]
        /\ ( Len(keys') = Len(keys) + 1 /\ status[c] = "mounted" )
           => ActionsAt(calls', Len(keys'), c)
                = Resolved(maps[props[c].map], keys'[Len(keys')].event)
    ]_vars

\* a component bound to the test's list was rendered with the other list; then
\* ctrl+shift+"o", which only the test's list declares, invoked nothing, and
\* ctrl+"O" invoked an action of the other list
C11_Witness ==
  /\ \E h \in released : h.c = "c1" /\ h.map = "m1"
  /\ Len(keys) = 2
  /\ keys[1].event = Event(TRUE, TRUE, FALSE, FALSE, "o")
  /\ keys[2].event = Event(TRUE, FALSE, FALSE, FALSE, "O")
  /\ DOMAIN keys[1].bound = {"c1"} /\ keys[1].bound["c1"].map = "m2"
  /\ DOMAIN keys[2].bound = {"c1"} /\ keys[2].bound["c1"].map = "m2"
  /\ calls = <<[ks |-> 2, c |-> "c1", action |-> "A5"]>>

\* C12: a map that is missing, not a list, or empty is not an error.  The call
\* that builds the table never throws; for an empty list it returns an empty
\* table, and every keystroke looked up in it afterwards matches nothing.
C12_MalformedOrEmptyIsEmptyTable ==
  /\ fnPc # "threw"
  /\ (fnPc \in {"built", "looked"} /\ fnGiven = <<>>) => DOMAIN fnTable = {}
  /\ (fnPc = "looked" /\ fnGiven = <<>>) => fnFound = undefined

\* the positions of the document's keydown listeners that hold a handler
\* instance of component c
ListenersOf(c) == { i \in DOMAIN listeners : listeners[i].c = c }

\* C13: at most one handler instance of a component is registered on the
\* document: exactly one, its current handleKeyPress, while the component is
\* mounted, and none before the mount and after the unmount; and no keystroke
\* invokes more than one action of a component.
C13_OneHandlerPerBinding ==
  \A c \in DOMAIN status :
    /\ Cardinality(ListenersOf(c)) <= 1
    /\ status[c] = "mounted" =>
         /\ Cardinality(ListenersOf(c)) = 1
         /\ \A i \in ListenersOf(c) : listeners[i] = handleKeyPress[c]
    /\ status[c] # "mounted" => ListenersOf(c) = {}
    /\ \A k \in DOMAIN keys : Len(ActionsAt(calls, k, c)) <= 1

\* after a re-render that replaced the handler, one handler is registered and
\* a matching keystroke, handled by it, invoked its action once
C13_Witness ==
  /\ status["c1"] = "mounted"
  /\ gen["c1"] = 2
  /\ released # {}
  /\ Len(listeners) = 1 /\ listeners[1].id = 2
  /\ Len(keys) = 1
  /\ Len(runs) = 1 /\ runs[1].id = 2 /\ runs[1].called
  /\ Len(calls) = 1

\* the handler calls of component c that are suspended at `await action()`
\* (line 56) on a promise that is still pending
Suspended(c) == { r \in DOMAIN runs : runs[r].c = c /\ runs[r].status = "pending" }

\* C14: the handler calls of one component are serialized.  While a handler
\* call of a component is suspended on its pending action, so that it has not
\* completed through its log step, no later handler call of the component
\* invokes an action.
C14_HandlersSerialized ==
  [][ \A c \in DOMAIN status :
        \A r \in NewRunsOf(c) : runs'[r].called => Suspended(c) = {}
    ]_vars

\* C16: generateShorcutMap leaves its input unchanged.  After the call the
\* caller's list holds the same definitions in the same order, each with its
\* modifiers (in the order they were declared), key, action and description as
\* before the call; and every entry of the table is a definition of the list.
C16_InputUnchanged ==
  FnBuilt =>
    /\ fnMap = fnGiven
    /\ \A k \in DOMAIN fnTable : \E i \in DOMAIN fnMap : fnTable[k] = fnMap[i]

\* C18: modifier matching is exact.  The definition a keystroke resolves to
\* declares exactly the modifiers that are active on the event: a definition
\* whose declared set of modifiers differs from the active set, by one more or
\* one less, is never the one found.
C18_ExactModifierMatch ==
  fnPc = "looked" =>
    /\ fnFound # undefined => Range(fnFound.modifiers) = ActiveModifiers(fnEvent)
    /\ \A i \in DOMAIN fnGiven :
         Range(fnGiven[i].modifiers) # ActiveModifiers(fnEvent)
         => fnFound.action # fnGiven[i].action

\* ctrl+shift+alt+"o" was looked up in the table of a list that declares
\* ctrl+shift+"o" and nothing was found
C18_Witness ==
  /\ fnPc = "looked"
  /\ Len(fnGiven) = 1
  /\ Range(fnGiven[1].modifiers) = {"ctrlKey", "shiftKey"}
  /\ fnGiven[1].key = "o"
  /\ fnEvent = Event(TRUE, TRUE, FALSE, TRUE, "o")
  /\ fnFound = undefined

----------------------------------------------------------------------------
(* Properties of two components bound to the same document (SpecBindings) *)

\* C15: the release operation is idempotent-safe.  Calling again the cleanup
\* of a handler instance whose cleanup has already run removes nothing: it
\* leaves the document's listeners as they are, and whether or not such a call
\* has been made, the current handler of every mounted component - another
\* component's, or one registered by a later mount - is registered.
C15_ReleaseIsIdempotent ==
  /\ \A h \in released : removeEventListener(listeners, h) = listeners
  /\ \A c \in DOMAIN status :
       status[c] = "mounted" => \E i \in DOMAIN listeners : listeners[i] = handleKeyPress[c]

\* c1 was unmounted, c2 was mounted after that, and the cleanup of c1's
\* handler was called again: c2's handler is the one registered listener
C15_Witness ==
  /\ reran
  /\ status["c1"] = "retired"
  /\ status["c2"] = "mounted" /\ gen["c2"] = 1
  /\ \E h \in released : h.c = "c1"
  /\ listeners = <<handleKeyPress["c2"]>>

\* C17: a pending action does not block the lifecycle.  While a handler call
\* of a component is suspended on its pending action: if the component is
\* mounted, its unmount and its re-render with another list are enabled (the
\* re-render within the bound on handler instances), and the one registered
\* handler of the component is its current one; if it has been unmounted, no
\* handler of it is registered; and every other mounted component has its
\* handler registered and has handled each keystroke dispatched since, invoking
\* what its own table resolves the keystroke to.
C17_PendingBlocksNothing ==
  \A r \in DOMAIN runs :
    runs[r].status = "pending" =>
      LET c == runs[r].c
      IN /\ status[c] = "mounted" =>
              /\ ENABLED Unmount(c)
              /\ gen[c] < MaxHandlers =>
                   \A m \in MapRefs \ {props[c].map} : ENABLED Rerender(c, m, props[c].silent)
              /\ \A i \in ListenersOf(c) : listeners[i] = handleKeyPress[c]
         /\ status[c] # "mounted" => ListenersOf(c) = {}
         /\ \A d \in DOMAIN status \ {c} :
              /\ status[d] = "mounted" =>
                   \E i \in DOMAIN listeners : listeners[i] = handleKeyPress[d]
              /\ \A k \in DOMAIN keys :
                   (k > runs[r].ks /\ d \in DOMAIN keys[k].bound) =>
                     ActionsAt(calls, k, d)
                       = Resolved(maps[keys[k].bound[d].map], keys[k].event)

\* the action c1 invoked for the first keystroke is still pending; c1 was
\* unmounted meanwhile and the second keystroke was handled by c2 alone, which
\* invoked its action
C17_Witness ==
  /\ Len(keys) = 2
  /\ Len(runs) >= 1
  /\ runs[1].c = "c1" /\ runs[1].ks = 1 /\ runs[1].status = "pending"
  /\ status["c1"] = "retired"
  /\ ListenersOf("c1") = {}
  /\ status["c2"] = "mounted"
  /\ DOMAIN keys[2].bound = {"c2"}
  /\ \E i \in DOMAIN calls : calls[i].ks = 2 /\ calls[i].c = "c2"

----------------------------------------------------------------------------
(* Properties of a handler call that outlives its handler instance (Spec) *)

\* the definition the table of component c resolved keystroke number k to,
\* when the keystroke was dispatched
FoundAt(k, c) == getShortcut(generateShorcutMap(maps[keys[k].bound[c].map]), keys[k].event)

\* C19: a handler call completes with what it captured when it started.  A
\* step that unregisters or replaces a handler (unmount, re-render with another
\* list or another silent) changes no handler call; and when a call resumes
\* after its action resolved, whether or not its handler instance is still
\* registered, it writes nothing if the silent in force when its keystroke was
\* dispatched was true, and otherwise exactly the line of the definition its
\* keystroke was resolved to.
C19_RunKeepsItsCapture ==
  [][ /\ listeners' # listeners => runs' = runs
      /\ \A r \in DOMAIN runs :
           (runs[r].status = "resolved" /\ runs'[r].status = "done") =>
             /\ \A i \in DOMAIN log : log'[i] = log[i]
             /\ SilentAt(runs[r].ks, runs[r].c) = "true" => log' = log
             /\ SilentAt(runs[r].ks, runs[r].c) # "true" =>
                  /\ Len(log') = Len(log) + 1
                  /\ log'[Len(log')].run = r
                  /\ log'[Len(log')].text = ExpectedLine(FoundAt(runs[r].ks, runs[r].c))
    ]_vars

\* two matched keystrokes were handled with silent omitted and both actions
\* resolved after the component had been unmounted: each handler call wrote its
\* line although its handler was no longer registered
C19_Witness ==
  /\ status["c1"] = "retired"
  /\ Len(runs) = 2
  /\ runs[1].status = "done" /\ runs[1].silent = "undefined"
  /\ runs[2].status = "done" /\ runs[2].silent = "undefined"
  /\ Len(log) = 2
  /\ ~log[1].live /\ ~log[2].live
  /\ log[1].text = ExpectedLine(runs[log[1].run].shortcut)

====
